---- MODULE Spec2Model ----
(***************************************************************************)
(* Model of the Frontier modexp precompile (frame/evm/precompile/modexp)   *)
(* and of the self-contained UncheckedExtrinsic::check                     *)
(* (primitives/self-contained).                                            *)
(*                                                                         *)
(* Representation.                                                         *)
(*  - A byte is an integer 0..255, a byte slice a sequence of bytes.       *)
(*  - A BigUint is its normalised big-endian base-256 digit sequence: no   *)
(*    leading zero digit, zero is the empty sequence.                      *)
(*  - A u64 is held as a representative r of its residue class modulo      *)
(*    2^64: r >= 0 stands for r, r < 0 stands for 2^64 + r.  Wrapping      *)
(*    addition and subtraction are then plain integer addition and         *)
(*    subtraction, and the true order puts every negative representative   *)
(*    above every non-negative one.                                        *)
(***************************************************************************)
EXTENDS Integers, Sequences, FiniteSets, TLC

VARIABLES
    \* ---- Modexp::execute: arguments, locals, position, outcome
    input, target_gas, pc,
    base_len, exp_len, mod_len,
    base, exponent, modulus, r, gas_cost,
    result,
    \* ---- which steps of execute have run in the current call
    operands_read, gas_computed, gas_compared, modulus_read, modpow_done,
    overflowed,
    \* ---- UncheckedExtrinsic::check
    xt, cpc, checked, generic_ran, signed_query

mvars == <<input, target_gas, pc, base_len, exp_len, mod_len, base, exponent,
           modulus, r, gas_cost, result, operands_read, gas_computed,
           gas_compared, modulus_read, modpow_done, overflowed>>
cvars == <<xt, cpc, checked, generic_ran, signed_query>>
vars == <<mvars, cvars>>

(***************************************************************************)
(* Program constants                                                       *)
(***************************************************************************)
MIN_GAS_COST == 200
MAX_SIZE == 1024
HEADER_LEN == 96
FIELD_LEN == 32
WORD_BYTES == 8
GAS_DIVISOR == 3

(***************************************************************************)
(* Bounds of the model                                                     *)
(***************************************************************************)
MaxSmallLen == 1
MaxTrailing == 1

(***************************************************************************)
(* Bytes                                                                   *)
(***************************************************************************)
Min(a, b) == IF a < b THEN a ELSE b

\* number of significant bits of a byte
BitLen8(b) ==
    IF b >= 128 THEN 8 ELSE IF b >= 64 THEN 7 ELSE IF b >= 32 THEN 6
    ELSE IF b >= 16 THEN 5 ELSE IF b >= 8 THEN 4 ELSE IF b >= 4 THEN 3
    ELSE IF b >= 2 THEN 2 ELSE IF b >= 1 THEN 1 ELSE 0

RECURSIVE AndBits(_, _, _)
AndBits(x, y, n) ==
    IF n = 0 THEN 0
    ELSE ((x % 2) * (y % 2)) + 2 * AndBits(x \div 2, y \div 2, n - 1)

ByteAnd(x, y) == AndBits(x, y, 8)

(***************************************************************************)
(* num::BigUint                                                            *)
(***************************************************************************)
FirstNonZero(s) ==
    IF \E i \in 1..Len(s) : s[i] # 0
    THEN CHOOSE i \in 1..Len(s) : s[i] # 0 /\ \A j \in 1..(i - 1) : s[j] = 0
    ELSE Len(s) + 1

\* BigUint::from_bytes_be: leading zero bytes carry no value
from_bytes_be(bytes) == SubSeq(bytes, FirstNonZero(bytes), Len(bytes))

\* BigUint::to_bytes_be: the digits, and the single byte 0 for zero
to_bytes_be(n) == IF n = <<>> THEN <<0>> ELSE n

zero == <<>>
is_zero(n) == n = <<>>
is_one(n) == n = <<1>>

\* BigUint::bits: 0 for zero
bits(n) == IF n = <<>> THEN 0 ELSE 8 * (Len(n) - 1) + BitLen8(n[1])

\* BigUint ordering (a > b)
BigGt(a, b) ==
    IF Len(a) # Len(b) THEN Len(a) > Len(b)
    ELSE \E i \in 1..Len(a) : a[i] > b[i] /\ \A j \in 1..(i - 1) : a[j] = b[j]

RECURSIVE NatDigits(_)
NatDigits(v) == IF v = 0 THEN <<>> ELSE Append(NatDigits(v \div 256), v % 256)

\* BigUint::from_u32 / from a machine integer
from_u32(v) == NatDigits(v)

RECURSIVE DigitsValue(_, _)
DigitsValue(n, k) == IF k = 0 THEN 0 ELSE DigitsValue(n, k - 1) * 256 + n[k]

\* BigUint::to_usize (the callers have bounded the value by 1024)
to_usize(n) == DigitsValue(n, Len(n))

\* BigUint & BigUint
bitand(a, b) ==
    LET n == Min(Len(a), Len(b))
        la == SubSeq(a, Len(a) - n + 1, Len(a))
        lb == SubSeq(b, Len(b) - n + 1, Len(b))
    IN from_bytes_be([i \in 1..n |-> ByteAnd(la[i], lb[i])])

MulMod(x, y, m) == (x * y) % m

\* 256^k mod m, by halving k
RECURSIVE Pow256(_, _)
Pow256(k, m) ==
    IF k = 0 THEN 1 % m
    ELSE IF k % 2 = 0 THEN MulMod(Pow256(k \div 2, m), Pow256(k \div 2, m), m)
    ELSE MulMod(256 % m, Pow256(k - 1, m), m)

\* the digits a[lo..hi] as a number mod m, for a machine-sized m >= 1
RECURSIVE RemRange(_, _, _, _)
RemRange(a, m, lo, hi) ==
    IF lo > hi THEN 0
    ELSE IF lo = hi THEN a[lo] % m
    ELSE (MulMod(RemRange(a, m, lo, (lo + hi) \div 2), Pow256(hi - ((lo + hi) \div 2), m), m)
          + RemRange(a, m, ((lo + hi) \div 2) + 1, hi)) % m

\* bit k of a byte, bit 7 the most significant
ByteBit(byte, k) == (byte \div (2 ^ k)) % 2

\* one step of square-and-multiply: square, and multiply when the bit is set
SquareMul(p, b, m, bit) ==
    IF bit = 1 THEN MulMod(MulMod(p, p, m), b, m) ELSE MulMod(p, p, m)

\* the eight steps for one exponent byte, most significant bit first
PowByte(p, b, m, byte) ==
    SquareMul(SquareMul(SquareMul(SquareMul(SquareMul(SquareMul(SquareMul(SquareMul(
        p, b, m, ByteBit(byte, 7)), b, m, ByteBit(byte, 6)), b, m, ByteBit(byte, 5)),
        b, m, ByteBit(byte, 4)), b, m, ByteBit(byte, 3)), b, m, ByteBit(byte, 2)),
        b, m, ByteBit(byte, 1)), b, m, ByteBit(byte, 0))

\* square-and-multiply over the bytes k.. of e, most significant first, from
\* the accumulator acc.  The set binds the next accumulator to its value
\* before the following step, which keeps the evaluation shallow.
RECURSIVE PowFrom(_, _, _, _, _)
PowFrom(acc, b, e, m, k) ==
    IF k > Len(e) THEN acc
    ELSE CHOOSE res \in {PowFrom(next, b, e, m, k + 1) :
                            next \in {PowByte(acc, b, m, e[k])}} : TRUE

\* BigUint::modpow, for a modulus >= 2
modpow(b, e, md) ==
    LET m == DigitsValue(md, Len(md))
    IN NatDigits(CHOOSE res \in {PowFrom(1 % m, x, e, m, 1) :
                                    x \in {RemRange(b, m, 1, Len(b))}} : TRUE)

(***************************************************************************)
(* u64 arithmetic on residue representatives                               *)
(***************************************************************************)
U64Lt(a, b) == IF (a < 0) = (b < 0) THEN a < b ELSE b < 0
U64Gt(a, b) == U64Lt(b, a)

u64_sub(a, b) == [value |-> a - b, overflow |-> U64Lt(a, b)]
u64_add(a, b) ==
    [value |-> a + b,
     overflow |-> IF a >= 0 /\ b >= 0 THEN FALSE
                  ELSE IF a < 0 /\ b < 0 THEN TRUE
                  ELSE a + b >= 0]
u64_mul(a, b) ==
    [value |-> a * b,
     overflow |-> (a < 0 /\ (b < 0 \/ b >= 2)) \/ (b < 0 /\ a >= 2)]

\* fn max(a: u64, b: u64) -> u64
max(a, b) == IF U64Gt(a, b) THEN a ELSE b

(***************************************************************************)
(* calculate_gas_cost (EIP-2565)                                           *)
(***************************************************************************)
\* the word count without the round-up of a partial word
calculate_multiplication_complexity_floor(base_length, mod_length) ==
    LET max_length == max(base_length, mod_length)
        words == max_length \div WORD_BYTES
    IN u64_mul(words, words)

calculate_multiplication_complexity(base_length, mod_length) ==
    LET max_length == max(base_length, mod_length)
        words == IF max_length % WORD_BYTES > 0
                 THEN (max_length \div WORD_BYTES) + 1
                 ELSE max_length \div WORD_BYTES
    IN u64_mul(words, words)

max_256_bit_uint == from_bytes_be([i \in 1..FIELD_LEN |-> 255])

calculate_iteration_count(exp_length, exp) ==
    IF exp_length <= FIELD_LEN /\ is_zero(exp)
    THEN [value |-> max(0, 1), overflow |-> FALSE]
    ELSE IF exp_length <= FIELD_LEN
    THEN LET s == u64_sub(bits(exp), 1)
         IN [value |-> max(s.value, 1), overflow |-> s.overflow]
    ELSE LET s == u64_sub(bits(bitand(exp, max_256_bit_uint)), 1)
             a == u64_add(8 * (exp_length - FIELD_LEN), s.value)
         IN [value |-> max(a.value, 1), overflow |-> s.overflow \/ a.overflow]

calculate_gas_cost(base_length, exp_length, mod_length, exp) ==
    LET multiplication_complexity ==
            calculate_multiplication_complexity(base_length, mod_length)
        iteration_count == calculate_iteration_count(exp_length, exp)
        product == u64_mul(multiplication_complexity.value, iteration_count.value)
    IN [value |-> max(MIN_GAS_COST, product.value \div GAS_DIVISOR),
        overflow |-> multiplication_complexity.overflow
                     \/ iteration_count.overflow \/ product.overflow]

(***************************************************************************)
(* Outcomes of Modexp::execute                                             *)
(***************************************************************************)
None == [some |-> FALSE, value |-> 0]
Some(v) == [some |-> TRUE, value |-> v]

NoResult == [kind |-> "None", error |-> "", msg |-> "", output |-> <<>>, gas |-> 0]
Ok(out, gas) ==
    [kind |-> "Ok", error |-> "Returned", msg |-> "", output |-> out, gas |-> gas]
ErrOther(m) ==
    [kind |-> "Err", error |-> "Other", msg |-> m, output |-> <<>>, gas |-> 0]
ErrOutOfGas ==
    [kind |-> "Err", error |-> "OutOfGas", msg |-> "", output |-> <<>>, gas |-> 0]
Panic(m) ==
    [kind |-> "Panic", error |-> "", msg |-> m, output |-> <<>>, gas |-> 0]

(***************************************************************************)
(* Inputs offered to execute                                               *)
(***************************************************************************)
\* a 32-byte big-endian length field holding v < 65536
Field32(v) ==
    [i \in 1..FIELD_LEN |->
        IF i = FIELD_LEN THEN v % 256
        ELSE IF i = FIELD_LEN - 1 THEN (v \div 256) % 256 ELSE 0]

\* the first field of tests::test_excessive_input: 0x10 00 .. 00 01
HugeField == [i \in 1..FIELD_LEN |-> IF i = 1 THEN 16 ELSE IF i = FIELD_LEN THEN 1 ELSE 0]
\* 2^248: only the most significant byte is set
HighOnlyField == [i \in 1..FIELD_LEN |-> IF i = 1 THEN 1 ELSE 0]

\* an operand of len bytes: first byte hi, the bytes of tl last, zero between
Operand(len, hi, tl) ==
    [i \in 1..len |->
        IF i > len - Len(tl) THEN tl[i - (len - Len(tl))]
        ELSE IF i = 1 THEN hi ELSE 0]

Zeros(n) == [i \in 1..n |-> 0]
Trailing(n) == [i \in 1..n |-> 9]

SmallLens == 0..MaxSmallLen
BaseLens == SmallLens \cup {32}
ExpLens == SmallLens \cup {32, 33, 34}
ModLens == SmallLens \cup {32}

BaseTails == {<<>>, <<3>>, <<234, 95>>}
ExpTails == {<<>>, <<1>>, <<5>>, <<21>>}
ExpHighs == {0, 1, 255}
ModTails == {<<>>, <<1>>, <<7>>, <<56, 116>>}

HeaderFields ==
    {Field32(v) : v \in {0, 1, MAX_SIZE, MAX_SIZE + 1}} \cup {HugeField, HighOnlyField}

ShortInputs == {Zeros(n) : n \in {0, HEADER_LEN - 1}} \cup {SubSeq(Field32(1) \o Field32(1) \o Field32(1), 1, HEADER_LEN - 1)}

HeaderInputs ==
    {f1 \o f2 \o f3 \o Trailing(t) :
        f1 \in HeaderFields, f2 \in HeaderFields, f3 \in HeaderFields,
        t \in 0..MaxTrailing}

OperandsOf(lens, highs, tails) ==
    UNION {{Operand(l, h, t) : h \in highs, t \in {u \in tails : Len(u) <= l}} :
             l \in lens}

Bodies ==
    {Field32(Len(b)) \o Field32(Len(e)) \o Field32(Len(m)) \o b \o e \o m :
        b \in OperandsOf(BaseLens, {0}, BaseTails),
        e \in OperandsOf(ExpLens, ExpHighs, ExpTails),
        m \in OperandsOf(ModLens, {0}, ModTails)}

\* every body as it is, cut short by one byte, and followed by extra bytes
BodyInputs ==
    {b \o Trailing(t) : b \in Bodies, t \in 0..MaxTrailing}
    \cup {SubSeq(b, 1, Len(b) - 1) : b \in Bodies}

\* operands of the greatest length the parser admits, and of a length that
\* is no multiple of the word size
BigInputs ==
    {Field32(bl) \o Field32(Len(e)) \o Field32(1)
        \o Operand(bl, 1, <<3>>) \o e \o <<7>> :
        bl \in {9, MAX_SIZE},
        e \in OperandsOf({1, 32, 33}, {1, 255}, {<<>>, <<5>>})}

Inputs == ShortInputs \cup HeaderInputs \cup BodyInputs \cup BigInputs

GasLimits == {None, Some(0), Some(199), Some(200), Some(100000)}

(***************************************************************************)
(* Modexp::execute, step by step                                           *)
(***************************************************************************)
MInit ==
    /\ input = <<>> /\ target_gas = None /\ pc = "idle"
    /\ base_len = 0 /\ exp_len = 0 /\ mod_len = 0
    /\ base = zero /\ exponent = zero /\ modulus = zero /\ r = zero
    /\ gas_cost = 0 /\ result = NoResult
    /\ operands_read = FALSE /\ gas_computed = FALSE /\ gas_compared = FALSE
    /\ modulus_read = FALSE /\ modpow_done = FALSE /\ overflowed = FALSE

max_size_big == from_u32(MAX_SIZE)

\* the caller invokes execute(input, target_gas, _context)
Call ==
    /\ pc = "idle"
    /\ \E i \in Inputs, g \in GasLimits :
        /\ input' = i
        /\ target_gas' = g
    /\ pc' = "check_len"
    /\ UNCHANGED <<base_len, exp_len, mod_len, base, exponent, modulus, r,
                   gas_cost, result, operands_read, gas_computed, gas_compared,
                   modulus_read, modpow_done, overflowed>>
    /\ UNCHANGED cvars

Fail(res) ==
    /\ result' = res
    /\ pc' = "done"

\* if input.len() < 96
CheckInputLen ==
    /\ pc = "check_len"
    /\ IF Len(input) < HEADER_LEN
       THEN Fail(ErrOther("input must contain at least 96 bytes"))
       ELSE pc' = "base_len" /\ UNCHANGED result
    /\ UNCHANGED <<input, target_gas, base_len, exp_len, mod_len, base, exponent,
                   modulus, r, gas_cost, operands_read, gas_computed, gas_compared,
                   modulus_read, modpow_done, overflowed>>
    /\ UNCHANGED cvars

ReadBaseLen ==
    /\ pc = "base_len"
    /\ LET base_len_big == from_bytes_be(SubSeq(input, 1, 32))
       IN IF BigGt(base_len_big, max_size_big)
          THEN /\ Fail(ErrOther("unreasonably large base length"))
               /\ UNCHANGED base_len
          ELSE /\ base_len' = to_usize(base_len_big)
               /\ pc' = "exp_len"
               /\ UNCHANGED result
    /\ UNCHANGED <<input, target_gas, exp_len, mod_len, base, exponent,
                   modulus, r, gas_cost, operands_read, gas_computed, gas_compared,
                   modulus_read, modpow_done, overflowed>>
    /\ UNCHANGED cvars

ReadExpLen ==
    /\ pc = "exp_len"
    /\ LET exp_len_big == from_bytes_be(SubSeq(input, 33, 64))
       IN IF BigGt(exp_len_big, max_size_big)
          THEN /\ Fail(ErrOther("unreasonably large exponent length"))
               /\ UNCHANGED exp_len
          ELSE /\ exp_len' = to_usize(exp_len_big)
               /\ pc' = "mod_len"
               /\ UNCHANGED result
    /\ UNCHANGED <<input, target_gas, base_len, mod_len, base, exponent,
                   modulus, r, gas_cost, operands_read, gas_computed, gas_compared,
                   modulus_read, modpow_done, overflowed>>
    /\ UNCHANGED cvars

ReadModLen ==
    /\ pc = "mod_len"
    /\ LET mod_len_big == from_bytes_be(SubSeq(input, 65, 96))
       IN IF BigGt(mod_len_big, max_size_big)
          THEN /\ Fail(ErrOther("unreasonably large exponent length"))
               /\ UNCHANGED mod_len
          ELSE /\ mod_len' = to_usize(mod_len_big)
               /\ pc' = "total_len"
               /\ UNCHANGED result
    /\ UNCHANGED <<input, target_gas, base_len, exp_len, base, exponent,
                   modulus, r, gas_cost, operands_read, gas_computed, gas_compared,
                   modulus_read, modpow_done, overflowed>>
    /\ UNCHANGED cvars

\* the length check as an equality: trailing bytes are rejected
CheckTotalLen_exact ==
    /\ pc = "total_len"
    /\ LET total_len == base_len + exp_len + mod_len + HEADER_LEN
       IN IF Len(input) # total_len
          THEN Fail(ErrOther("insufficient input size"))
          ELSE pc' = "branch" /\ UNCHANGED result
    /\ UNCHANGED <<input, target_gas, base_len, exp_len, mod_len, base, exponent,
                   modulus, r, gas_cost, operands_read, gas_computed, gas_compared,
                   modulus_read, modpow_done, overflowed>>
    /\ UNCHANGED cvars

\* let total_len = base_len + exp_len + mod_len + 96
CheckTotalLen ==
    /\ pc = "total_len"
    /\ LET total_len == base_len + exp_len + mod_len + HEADER_LEN
       IN IF Len(input) < total_len
          THEN Fail(ErrOther("insufficient input size"))
          ELSE pc' = "branch" /\ UNCHANGED result
    /\ UNCHANGED <<input, target_gas, base_len, exp_len, mod_len, base, exponent,
                   modulus, r, gas_cost, operands_read, gas_computed, gas_compared,
                   modulus_read, modpow_done, overflowed>>
    /\ UNCHANGED cvars

\* if base_len == 0 && mod_len == 0 { (BigUint::zero(), MIN_GAS_COST) }
EmptyCase ==
    /\ pc = "branch"
    /\ base_len = 0 /\ mod_len = 0
    /\ r' = zero
    /\ gas_cost' = MIN_GAS_COST
    /\ pc' = "output"
    /\ UNCHANGED <<input, target_gas, base_len, exp_len, mod_len, base, exponent,
                   modulus, result, operands_read, gas_computed, gas_compared,
                   modulus_read, modpow_done, overflowed>>
    /\ UNCHANGED cvars

\* read the numbers themselves
ReadOperands ==
    /\ pc = "branch"
    /\ ~(base_len = 0 /\ mod_len = 0)
    /\ LET base_start == HEADER_LEN
           exp_start == base_start + base_len
       IN /\ base' = from_bytes_be(SubSeq(input, base_start + 1, base_start + base_len))
          /\ exponent' = from_bytes_be(SubSeq(input, exp_start + 1, exp_start + exp_len))
    /\ operands_read' = TRUE
    /\ pc' = "gas"
    /\ UNCHANGED <<input, target_gas, base_len, exp_len, mod_len,
                   modulus, r, gas_cost, result, gas_computed, gas_compared,
                   modulus_read, modpow_done, overflowed>>
    /\ UNCHANGED cvars

\* do our gas accounting.  An overflowing u64 operation panics in a build
\* with overflow checks and wraps in a build without them.
GasAccounting ==
    /\ pc = "gas"
    /\ LET g == calculate_gas_cost(base_len, exp_len, mod_len, exponent)
       IN /\ overflowed' = g.overflow
          /\ \/ /\ g.overflow
                /\ Fail(Panic("attempt to subtract with overflow"))
                /\ UNCHANGED <<gas_cost, gas_computed, gas_compared>>
             \/ /\ gas_cost' = g.value
                /\ gas_computed' = TRUE
                /\ IF ~target_gas.some
                   THEN /\ Fail(Panic("Gas limit not provided"))
                        /\ UNCHANGED gas_compared
                   ELSE /\ gas_compared' = TRUE
                        /\ IF U64Gt(g.value, target_gas.value)
                           THEN Fail(ErrOutOfGas)
                           ELSE pc' = "modulus" /\ UNCHANGED result
    /\ UNCHANGED <<input, target_gas, base_len, exp_len, mod_len, base, exponent,
                   modulus, r, operands_read, modulus_read, modpow_done>>
    /\ UNCHANGED cvars

ReadModulus ==
    /\ pc = "modulus"
    /\ LET mod_start == HEADER_LEN + base_len + exp_len
       IN modulus' = from_bytes_be(SubSeq(input, mod_start + 1, mod_start + mod_len))
    /\ modulus_read' = TRUE
    /\ pc' = "modpow"
    /\ UNCHANGED <<input, target_gas, base_len, exp_len, mod_len, base, exponent,
                   r, gas_cost, result, operands_read, gas_computed, gas_compared,
                   modpow_done, overflowed>>
    /\ UNCHANGED cvars

\* if modulus.is_zero() || modulus.is_one() { zero } else { base.modpow(..) }
Exponentiate ==
    /\ pc = "modpow"
    /\ IF is_zero(modulus) \/ is_one(modulus)
       THEN r' = zero /\ UNCHANGED modpow_done
       ELSE r' = modpow(base, exponent, modulus) /\ modpow_done' = TRUE
    /\ pc' = "output"
    /\ UNCHANGED <<input, target_gas, base_len, exp_len, mod_len, base, exponent,
                   modulus, gas_cost, result, operands_read, gas_computed,
                   gas_compared, modulus_read, overflowed>>
    /\ UNCHANGED cvars

\* write output, left padded and same length as the modulus
WriteOutput ==
    /\ pc = "output"
    /\ LET bytes == to_bytes_be(r)
       IN result' =
            IF Len(bytes) = mod_len THEN Ok(bytes, gas_cost)
            ELSE IF Len(bytes) < mod_len
            THEN Ok(Zeros(mod_len - Len(bytes)) \o bytes, gas_cost)
            ELSE ErrOther("failed")
    /\ pc' = "done"
    /\ UNCHANGED <<input, target_gas, base_len, exp_len, mod_len, base, exponent,
                   modulus, r, gas_cost, operands_read, gas_computed, gas_compared,
                   modulus_read, modpow_done, overflowed>>
    /\ UNCHANGED cvars

MNext ==
    \/ Call
    \/ CheckInputLen
    \/ ReadBaseLen
    \/ ReadExpLen
    \/ ReadModLen
    \/ CheckTotalLen
    \/ EmptyCase
    \/ ReadOperands
    \/ GasAccounting
    \/ ReadModulus
    \/ Exponentiate
    \/ WriteOutput

(***************************************************************************)
(* UncheckedExtrinsic::check (primitives/self-contained)                   *)
(***************************************************************************)
Calls == {"transact", "transfer"}
Errors == {"BadProof", "Payment"}
Infos == {"origin_a", "origin_b"}

\* Option<Result<SignedInfo, TransactionValidityError>>
NoneOpt == [tag |-> "None", val |-> ""]
SomeErr(e) == [tag |-> "SomeErr", val |-> e]
SomeOk(i) == [tag |-> "SomeOk", val |-> i]
SelfChecks == {NoneOpt} \cup {SomeErr(e) : e \in Errors} \cup {SomeOk(i) : i \in Infos}

\* an extrinsic, with what its call's SelfContainedCall methods answer and
\* what the lookup and the signature verification of the generic check answer
Extrinsics ==
    [function : Calls, signature : BOOLEAN, self_contained : BOOLEAN,
     self_check : SelfChecks, lookup_ok : BOOLEAN, sig_ok : BOOLEAN]

NoExtrinsic ==
    [function |-> "transact", signature |-> FALSE, self_contained |-> FALSE,
     self_check |-> NoneOpt, lookup_ok |-> FALSE, sig_ok |-> FALSE]

Unchecked == [kind |-> "None", error |-> "", signed |-> "", info |-> "", function |-> ""]
CheckedErr(e) == [kind |-> "Err", error |-> e, signed |-> "", info |-> "", function |-> ""]
CheckedOk(sg, i, f) == [kind |-> "Ok", error |-> "", signed |-> sg, info |-> i, function |-> f]

\* sp_runtime::generic::UncheckedExtrinsic::check, with signed as Option
GenericCheck(x) ==
    IF x.signature
    THEN IF ~x.lookup_ok THEN CheckedErr("UnknownOrigin")
         ELSE IF ~x.sig_ok THEN CheckedErr("BadProof")
         ELSE CheckedOk("Some", "account", x.function)
    ELSE CheckedOk("None", "", x.function)

\* check without the rejection of a signed self-contained extrinsic
check_ignoring_signature(x) ==
    IF x.self_contained
    THEN IF x.self_check.tag = "None" THEN CheckedErr("BadProof")
         ELSE IF x.self_check.tag = "SomeErr" THEN CheckedErr(x.self_check.val)
         ELSE CheckedOk("SelfContained", x.self_check.val, x.function)
    ELSE LET inner == GenericCheck(x)
         IN IF inner.kind = "Err" THEN inner
            ELSE IF inner.signed = "Some"
                 THEN CheckedOk("Signed", inner.info, inner.function)
                 ELSE CheckedOk("Unsigned", "", inner.function)

\* fn check(self, lookup)
check(x) ==
    IF x.self_contained
    THEN IF x.signature THEN CheckedErr("BadProof")
         ELSE IF x.self_check.tag = "None" THEN CheckedErr("BadProof")
         ELSE IF x.self_check.tag = "SomeErr" THEN CheckedErr(x.self_check.val)
         ELSE CheckedOk("SelfContained", x.self_check.val, x.function)
    ELSE LET inner == GenericCheck(x)
         IN IF inner.kind = "Err" THEN inner
            ELSE IF inner.signed = "Some"
                 THEN CheckedOk("Signed", inner.info, inner.function)
                 ELSE CheckedOk("Unsigned", "", inner.function)

\* fn is_signed(&self) -> Option<bool>
is_signed(x) ==
    IF x.self_contained THEN "Some(true)"
    ELSE IF x.signature THEN "Some(true)" ELSE "Some(false)"

CInit ==
    /\ xt = NoExtrinsic /\ cpc = "idle" /\ checked = Unchecked
    /\ generic_ran = FALSE /\ signed_query = "unasked"

\* an extrinsic arrives from the external world
Submit ==
    /\ cpc = "idle"
    /\ xt' \in Extrinsics
    /\ cpc' = "submitted"
    /\ UNCHANGED <<checked, generic_ran, signed_query>>
    /\ UNCHANGED mvars

IsSigned ==
    /\ cpc = "submitted"
    /\ signed_query' = is_signed(xt)
    /\ UNCHANGED <<xt, cpc, checked, generic_ran>>
    /\ UNCHANGED mvars

Check ==
    /\ cpc = "submitted"
    /\ checked' = check(xt)
    /\ generic_ran' = ~xt.self_contained
    /\ cpc' = "checked"
    /\ UNCHANGED <<xt, signed_query>>
    /\ UNCHANGED mvars

CNext ==
    \/ Submit
    \/ IsSigned
    \/ Check

(***************************************************************************)
(* Specifications                                                          *)
(***************************************************************************)
Init == MInit /\ CInit

Spec == Init /\ [][MNext]_vars

SpecCheck == Init /\ [][CNext]_vars

(***************************************************************************)
(* What the specification says of a call, read off the raw argument bytes  *)
(***************************************************************************)
SetMax(S) == CHOOSE x \in S : \A y \in S : y <= x
IntMax(a, b) == IF a >= b THEN a ELSE b

\* a 32-byte header field decodes to more than 1024
FieldTooLarge(f) ==
    \/ \E i \in 1..(FIELD_LEN - 2) : f[i] # 0
    \/ f[FIELD_LEN - 1] * 256 + f[FIELD_LEN] > MAX_SIZE
FieldValue(f) == f[FIELD_LEN - 1] * 256 + f[FIELD_LEN]

HeaderField(k) == SubSeq(input, (k - 1) * FIELD_LEN + 1, k * FIELD_LEN)
HasHeader == Len(input) >= HEADER_LEN
LengthsOk == HasHeader /\ \A k \in 1..3 : ~FieldTooLarge(HeaderField(k))
DeclBaseLen == FieldValue(HeaderField(1))
DeclExpLen == FieldValue(HeaderField(2))
DeclModLen == FieldValue(HeaderField(3))
DeclTotal == HEADER_LEN + DeclBaseLen + DeclExpLen + DeclModLen
Validated == LengthsOk /\ Len(input) >= DeclTotal
EmptyBaseAndMod == DeclBaseLen = 0 /\ DeclModLen = 0
Done == pc = "done"

RawBase == SubSeq(input, HEADER_LEN + 1, HEADER_LEN + DeclBaseLen)
RawExp == SubSeq(input, HEADER_LEN + DeclBaseLen + 1, HEADER_LEN + DeclBaseLen + DeclExpLen)
RawMod == SubSeq(input, HEADER_LEN + DeclBaseLen + DeclExpLen + 1, DeclTotal)

\* bit length of the unsigned big-endian number held in a byte slice
ByteBitLength(b) == IF b = 0 THEN 0 ELSE CHOOSE k \in 1..8 : 2 ^ (k - 1) <= b /\ b < 2 ^ k
BitLength(bytes) ==
    IF \A i \in 1..Len(bytes) : bytes[i] = 0 THEN 0
    ELSE SetMax({8 * (Len(bytes) - i) + ByteBitLength(bytes[i]) :
                    i \in {j \in 1..Len(bytes) : bytes[j] # 0}})
\* the low 256 bits of a byte slice longer than 32 bytes
Low256(bytes) == SubSeq(bytes, Len(bytes) - FIELD_LEN + 1, Len(bytes))

SpecWords == (IntMax(DeclBaseLen, DeclModLen) + WORD_BYTES - 1) \div WORD_BYTES
SpecIterations ==
    IF DeclExpLen <= FIELD_LEN
    THEN IF BitLength(RawExp) = 0 THEN IntMax(1, 0) ELSE IntMax(1, BitLength(RawExp) - 1)
    ELSE IntMax(1, 8 * (DeclExpLen - FIELD_LEN) + BitLength(Low256(RawExp)) - 1)
SpecGas == IntMax(MIN_GAS_COST, (SpecWords * SpecWords * SpecIterations) \div GAS_DIVISOR)
SpecPrice == IF EmptyBaseAndMod THEN MIN_GAS_COST ELSE SpecGas
GasCovered == target_gas.some /\ target_gas.value >= SpecPrice

\* the value of a byte slice that holds a small number
RECURSIVE SliceValue(_, _)
SliceValue(bytes, k) == IF k = 0 THEN 0 ELSE SliceValue(bytes, k - 1) * 256 + bytes[k]
ValueOf(bytes) == SliceValue(bytes, Len(bytes))

\* x^n mod m by n multiplications
RECURSIVE NaivePow(_, _, _)
NaivePow(x, n, m) == IF n = 0 THEN 1 % m ELSE (x * NaivePow(x, n - 1, m)) % m
\* x^d mod m for a byte d, as (x^(d div 16))^16 * x^(d mod 16)
BytePow(x, d, m) ==
    (NaivePow(NaivePow(x, d \div 16, m), 16, m) * NaivePow(x, d % 16, m)) % m
\* x^e mod m for the exponent bytes k.. of e, from acc = x^(the bytes before k):
\* x^(256 q + d) = (x^q)^256 * x^d
RECURSIVE PowBytes(_, _, _, _, _)
PowBytes(acc, x, e, m, k) ==
    IF k > Len(e) THEN acc
    ELSE CHOOSE res \in
            {PowBytes(next, x, e, m, k + 1) :
                next \in {(NaivePow(NaivePow(acc, 16, m), 16, m) * BytePow(x, e[k], m)) % m}} : TRUE
\* base^exponent mod modulus of the call, for a modulus >= 2
SpecModExp ==
    LET m == ValueOf(RawMod)
    IN CHOOSE res \in {PowBytes(1 % m, x, RawExp, m, 1) :
                          x \in {RemRange(RawBase, m, 1, Len(RawBase))}} : TRUE
ModulusIsTrivial == \A i \in 1..Len(RawMod) : RawMod[i] = 0 \/ (i = Len(RawMod) /\ RawMod[i] = 1)

(***************************************************************************)
(* Claims                                                                  *)
(***************************************************************************)

\* C1: every validated call whose gas limit covers the price succeeds, and its
\* output read as a big-endian number is base^exponent mod modulus when the
\* modulus is at least 2 and is mod_len zero bytes when the modulus is 0 or 1.
C1_OutputIsModExp ==
    (Done /\ Validated /\ GasCovered) =>
        /\ result.kind = "Ok"
        /\ IF ModulusIsTrivial
           THEN result.output = Zeros(DeclModLen)
           ELSE /\ Len(result.output) = DeclModLen
                /\ ValueOf(result.output) = SpecModExp

\* C2: every validated call with sufficient gas returns success with exactly
\* mod_len output bytes, mod_len = 0 included; the "failed" branch is never taken.
C2_OutputLenIsModLen ==
    (Done /\ Validated /\ GasCovered) =>
        /\ result.kind = "Ok"
        /\ Len(result.output) = DeclModLen
        /\ result # ErrOther("failed")

\* C3: the gas of every successful call is at least 200 and, outside the
\* base_len = 0 and mod_len = 0 case, is max(200, words * words * iterations / 3).
C3_GasFormula ==
    (Done /\ result.kind = "Ok") =>
        /\ result.gas >= MIN_GAS_COST
        /\ ~EmptyBaseAndMod => result.gas = SpecGas

\* C3 witness: a successful call whose exponent is longer than 32 bytes with all
\* low 256 bits zero, priced above the minimum.
C3_Witness ==
    /\ Done /\ result.kind = "Ok"
    /\ DeclExpLen > FIELD_LEN /\ BitLength(Low256(RawExp)) = 0
    /\ result.gas > MIN_GAS_COST

\* C4: a validated call with base_len = 0 and mod_len = 0 succeeds with gas 200
\* and an empty output whatever the exponent and gas limit, without reading the
\* exponent.
C4_EmptyCaseSucceeds ==
    (Done /\ Validated /\ EmptyBaseAndMod) =>
        /\ result = Ok(<<>>, MIN_GAS_COST)
        /\ ~operands_read

\* C5: with a gas limit supplied, a validated call outside the empty case ends in
\* OutOfGas exactly when the price exceeds the limit, and the modulus is decoded
\* and the exponentiation done only after the gas comparison.
C5_OutOfGasIffPriceExceedsLimit ==
    /\ (Done /\ Validated /\ ~EmptyBaseAndMod /\ target_gas.some) =>
            (result = ErrOutOfGas <=> SpecGas > target_gas.value)
    /\ (modulus_read \/ modpow_done) => gas_compared

\* C6: without a gas limit, a validated call outside the empty case returns a
\* typed error value; it does not panic and produces no output.
C6_MissingGasLimitIsAnError ==
    (Done /\ Validated /\ ~EmptyBaseAndMod /\ ~target_gas.some) =>
        /\ result.kind = "Err"
        /\ result.output = <<>>

\* C7: no unsigned 64-bit operation of calculate_gas_cost overflows or underflows.
C7_NoOverflow == ~overflowed

\* the operand a length error message names
FieldNamed(m) ==
    IF m = "unreasonably large base length" THEN "base"
    ELSE IF m = "unreasonably large exponent length" THEN "exponent"
    ELSE IF m = "unreasonably large modulus length" THEN "modulus"
    ELSE "none"
FirstTooLarge ==
    IF FieldTooLarge(HeaderField(1)) THEN "base"
    ELSE IF FieldTooLarge(HeaderField(2)) THEN "exponent"
    ELSE IF FieldTooLarge(HeaderField(3)) THEN "modulus"
    ELSE "none"

\* C8: a call whose header holds a length above 1024 fails, before any operand
\* is read or gas computed, with an error naming the first such field in the
\* order base, exponent, modulus; a length of exactly 1024 is accepted.
C8_LengthErrorNamesField ==
    (Done /\ HasHeader) =>
        /\ result.kind = "Err" /\ result.error = "Other" => FieldNamed(result.msg) = FirstTooLarge
        /\ FirstTooLarge # "none" =>
                /\ result.kind = "Err" /\ result.error = "Other"
                /\ ~operands_read /\ ~gas_computed

TooShortError == ErrOther("input must contain at least 96 bytes")
InsufficientError == ErrOther("insufficient input size")

\* C9: every input shorter than 96 bytes fails with the too-short error; an input
\* with a header whose lengths are all <= 1024 fails with the insufficient-input
\* error exactly when it is shorter than 96 + base_len + exp_len + mod_len.
C9_LengthChecks ==
    Done =>
        /\ ~HasHeader => result = TooShortError
        /\ HasHeader => result # TooShortError
        /\ LengthsOk => (result = InsufficientError <=> Len(input) < DeclTotal)

\* C9 witness: an input with extra trailing bytes that is accepted and succeeds.
C9_Witness ==
    /\ Done /\ LengthsOk /\ Len(input) > DeclTotal
    /\ result.kind = "Ok"

\* C10: check never mixes the two validation paths.  Self-contained call:
\* BadProof if a signature is attached or check_self_contained gives None, the
\* call's own error on Some(Err), else SelfContained with the same call, and the
\* generic check is never run.  Otherwise: the generic check's outcome mapped to
\* Signed or Unsigned, never SelfContained.
C10_PathsNeverMix ==
    cpc = "checked" =>
        IF xt.self_contained
        THEN /\ ~generic_ran
             /\ (xt.signature \/ xt.self_check.tag = "None") => checked = CheckedErr("BadProof")
             /\ (~xt.signature /\ xt.self_check.tag = "SomeErr") =>
                    checked = CheckedErr(xt.self_check.val)
             /\ (~xt.signature /\ xt.self_check.tag = "SomeOk") =>
                    checked = CheckedOk("SelfContained", xt.self_check.val, xt.function)
        ELSE /\ generic_ran
             /\ checked.signed # "SelfContained"
             /\ GenericCheck(xt).kind = "Err" => checked = GenericCheck(xt)
             /\ GenericCheck(xt).kind = "Ok" =>
                    /\ checked.kind = "Ok"
                    /\ checked.function = xt.function
                    /\ checked.signed = (IF xt.signature THEN "Signed" ELSE "Unsigned")

\* C10 witness: a self-contained call without signature whose own check passes.
C10_Witness ==
    /\ cpc = "checked" /\ xt.self_contained /\ ~xt.signature
    /\ xt.self_check.tag = "SomeOk"
    /\ checked.signed = "SelfContained"

====
